---- MODULE Spec2Model ----
(***************************************************************************)
(* Model of src/downloader_core.py: one invocation of                      *)
(* download_audio_from_youtube, stepped through its pipeline               *)
(*   speed test -> connection choice -> extraction (one retry) ->          *)
(*   file detection -> result assembly -> optional MP3 conversion.         *)
(*                                                                         *)
(* The collaborators (speedtest, yt-dlp, shutil.which, ffmpeg) are the     *)
(* environment: every outcome they can produce is a nondeterministic       *)
(* choice.  The output directory is a map from path to modification time,  *)
(* 0 meaning that the path does not exist.  Directory entries are regular  *)
(* files.  Throughput is counted in tenths of a megabit per second, so     *)
(* that non-integral readings lie on both sides of every threshold.        *)
(***************************************************************************)
EXTENDS Integers, Sequences, FiniteSets, TLC

VARIABLES
    pc,                 \* position in download_audio_from_youtube
    disk,               \* output directory: path -> mtime, 0 = absent
    clock,              \* mtime given to the next file written
    convert_to_mp3,     \* argument
    keep_original,      \* argument
    speed_ok,           \* "untested" | "ok" | "failed": the speed test
    mbps,               \* measured throughput, in tenths of Mbps
    connections,        \* result of choose_connections
    aria2_found,        \* "unchecked" | "yes" | "no"
    calls,              \* options of every extract_info call made, in order
    outcomes,           \* how each call ended: "raised" | "none" | "dict"
    raised,             \* messages of the exceptions being handled
    error_msg,          \* str(e) seen by the outer except clause
    info,               \* value returned by extract_info
    downloaded_file,    \* the located file, NoPath while none
    results_files,      \* results["files"]
    ffmpeg_found,       \* "unchecked" | "yes" | "no"
    mp3_path,           \* target of the conversion, NoPath while none
    encoder_spawned,    \* number of ffmpeg processes started
    encoder_exit,       \* "none" | "ok" | "fail"
    encoder_input_existed, \* the input existed when ffmpeg was started
    unlinked,           \* paths this invocation has unlinked
    error               \* "none", or the exception that ended the invocation

vars == << pc, disk, clock, convert_to_mp3, keep_original, speed_ok, mbps,
           connections, aria2_found, calls, outcomes, raised, error_msg, info,
           downloaded_file, results_files, ffmpeg_found, mp3_path,
           encoder_spawned, encoder_exit, encoder_input_existed, unlinked,
           error >>

----------------------------------------------------------------------------
(* Bounds *)

MaxOldMtime == 2
MaxReq == 2
MbpsMax == 1050
MbpsNeg == 30

----------------------------------------------------------------------------
(* Paths of the output directory *)

Stems == {"a"}
Exts == {"webm", "mp3"}
Paths == [stem : Stems, ext : Exts]
NoPath == [stem |-> "", ext |-> ""]

\* Paths a result's metadata may name; NoPath is a missing or empty field.
InfoPaths == Paths \cup {NoPath}

\* Files an extraction may write into the output directory.
WrittenPaths == Paths \cup {NoPath}

Exists(d, p) == p \in Paths /\ d[p] > 0

\* output_path / (downloaded_file.stem + ".mp3")
Mp3PathOf(p) == [stem |-> p.stem, ext |-> "mp3"]

----------------------------------------------------------------------------
(* Pure helpers *)

\* Thresholds are in Mbps.
CONNECTION_THRESHOLDS == << <<100, 16>>, <<50, 8>>, <<10, 4>>, <<0, 1>> >>

RECURSIVE ScanThresholds(_, _)
ScanThresholds(m, i) ==
    IF i > Len(CONNECTION_THRESHOLDS) THEN 1
    ELSE IF m >= CONNECTION_THRESHOLDS[i][1] * 10
         THEN CONNECTION_THRESHOLDS[i][2]
         ELSE ScanThresholds(m, i + 1)

\* choose_connections with > in place of >=
RECURSIVE ScanThresholdsStrict(_, _)
ScanThresholdsStrict(m, i) ==
    IF i > Len(CONNECTION_THRESHOLDS) THEN 1
    ELSE IF m > CONNECTION_THRESHOLDS[i][1] * 10
         THEN CONNECTION_THRESHOLDS[i][2]
         ELSE ScanThresholdsStrict(m, i + 1)

choose_connections_strict(m) == ScanThresholdsStrict(m, 1)

\* m is in tenths of Mbps
choose_connections(m) == ScanThresholds(m, 1)

\* value returned by measure_download_speed when the test raises (10 Mbps)
SpeedFallback == 10 * 10

----------------------------------------------------------------------------
(* Values *)

Markers == {"bot", "private", "unavailable"}

\* An exception message, as the set of the classified phrases it contains.
Messages == SUBSET Markers

NoInfo == [kind |-> "unset", hasRD |-> FALSE, rd |-> << >>,
           hasFP |-> FALSE, fp |-> NoPath]

\* extract_info returned None (ignoreerrors is set)
NoneInfo == [kind |-> "none", hasRD |-> FALSE, rd |-> << >>,
             hasFP |-> FALSE, fp |-> NoPath]

SeqsUpTo(S, n) == UNION {[1..k -> S] : k \in 0..n}

\* A metadata dictionary: "requested_downloads" and "filepath" may each be
\* missing; a present "filepath" may be empty (NoPath).
InfoDicts ==
    {i \in [kind : {"dict"}, hasRD : BOOLEAN, rd : SeqsUpTo(InfoPaths, MaxReq),
            hasFP : BOOLEAN, fp : InfoPaths] :
        /\ ~i.hasRD => i.rd = << >>
        /\ ~i.hasFP => i.fp = NoPath}

RuntimeErrors == {"BotVerification", "PrivateVideo", "VideoUnavailable",
                  "DownloadFailed", "FileNotFound", "EncoderMissing",
                  "ConversionFailed"}

----------------------------------------------------------------------------
(* Initial state: the arguments and the output directory are inputs *)

Init ==
    /\ pc = "start"
    /\ disk \in [Paths -> 0..MaxOldMtime]
    /\ clock = MaxOldMtime + 1
    /\ convert_to_mp3 \in BOOLEAN
    /\ keep_original \in BOOLEAN
    /\ speed_ok = "untested"
    /\ mbps = 0
    /\ connections = 0
    /\ aria2_found = "unchecked"
    /\ calls = << >>
    /\ outcomes = << >>
    /\ raised = << >>
    /\ error_msg = {}
    /\ info = NoInfo
    /\ downloaded_file = NoPath
    /\ results_files = << >>
    /\ ffmpeg_found = "unchecked"
    /\ mp3_path = NoPath
    /\ encoder_spawned = 0
    /\ encoder_exit = "none"
    /\ encoder_input_existed = FALSE
    /\ unlinked = {}
    /\ error = "none"

----------------------------------------------------------------------------
(* Speed test and connection choice *)

\* measure_download_speed: the reading, or the fallback when the test raises
MeasureSpeedFrom(readings) ==
    /\ pc = "start"
    /\ \/ \E r \in readings : mbps' = r /\ speed_ok' = "ok"
       \/ mbps' = SpeedFallback /\ speed_ok' = "failed"
    /\ pc' = "choose"
    /\ UNCHANGED << disk, clock, convert_to_mp3, keep_original, connections,
                    aria2_found, calls, outcomes, raised, error_msg, info,
                    downloaded_file, results_files, ffmpeg_found, mp3_path,
                    encoder_spawned, encoder_exit, encoder_input_existed,
                    unlinked, error >>

\* readings of the pipeline's runs, in tenths of Mbps
MbpsSamples == {0, 600}

MeasureSpeed == MeasureSpeedFrom(MbpsSamples)

MeasureSpeedWide == MeasureSpeedFrom((0 - MbpsNeg)..MbpsMax)

ChooseConnections ==
    /\ pc = "choose"
    /\ connections' = choose_connections(mbps)
    /\ pc' = "aria2"
    /\ UNCHANGED << disk, clock, convert_to_mp3, keep_original, speed_ok, mbps,
                    aria2_found, calls, outcomes, raised, error_msg, info,
                    downloaded_file, results_files, ffmpeg_found, mp3_path,
                    encoder_spawned, encoder_exit, encoder_input_existed,
                    unlinked, error >>

\* check_tool_exists("aria2c") is evaluated first; the answer is the
\* environment's.
CheckAria2 ==
    /\ pc = "aria2"
    /\ \E found \in {"yes", "no"} : aria2_found' = found
    /\ pc' = "extract"
    /\ UNCHANGED << disk, clock, convert_to_mp3, keep_original, speed_ok, mbps,
                    connections, calls, outcomes, raised, error_msg, info,
                    downloaded_file, results_files, ffmpeg_found, mp3_path,
                    encoder_spawned, encoder_exit, encoder_input_existed,
                    unlinked, error >>

use_aria2 == aria2_found = "yes" /\ connections > 1

\* the options that matter to the flow: quiet and the external downloader
ytdlp_opts ==
    [quiet |-> TRUE,
     external_downloader |-> IF use_aria2 THEN "aria2c" ELSE "none",
     external_downloader_args |-> IF use_aria2 THEN connections ELSE 0]

ytdlp_opts_retry == [ytdlp_opts EXCEPT !.quiet = FALSE]

----------------------------------------------------------------------------
(* Extraction: lines 126-149 *)

\* yt-dlp writes file w (overwrites is set), NoPath when it writes nothing
Write(d, w, t) == IF w \in Paths THEN [d EXCEPT ![w] = t] ELSE d

\* a retry that is retried again when it raises
AfterRetryRaisesAgain == "retry"

\* Where control goes when the retry raises: the outer except clause.
AfterRetryRaises == "classify"

\* First extract_info call.  A call that raises or returns None leaves the
\* directory as it was: whatever such a call leaves behind is one of the
\* initial directories.
Extract ==
    /\ pc = "extract"
    /\ calls' = Append(calls, ytdlp_opts)
    /\ \/ \E m \in Messages :
            /\ raised' = Append(raised, m)
            /\ outcomes' = Append(outcomes, "raised")
            /\ pc' = "retry"
            /\ UNCHANGED << info, disk, clock >>
       \/ /\ info' = NoneInfo
          /\ outcomes' = Append(outcomes, "none")
          /\ pc' = "locate"
          /\ UNCHANGED << raised, disk, clock >>
       \/ \E i \in InfoDicts, w \in WrittenPaths :
            /\ info' = i
            /\ outcomes' = Append(outcomes, "dict")
            /\ disk' = Write(disk, w, clock)
            /\ clock' = clock + 1
            /\ pc' = "locate"
            /\ UNCHANGED raised
    /\ UNCHANGED << convert_to_mp3, keep_original, speed_ok, mbps, connections,
                    aria2_found, error_msg, downloaded_file, results_files,
                    ffmpeg_found, mp3_path, encoder_spawned, encoder_exit,
                    encoder_input_existed, unlinked, error >>

\* The retry inside the inner except clause.  When it returns, the clause
\* ends and the first exception is unbound.
Retry ==
    /\ pc = "retry"
    /\ calls' = Append(calls, ytdlp_opts_retry)
    /\ \/ \E m \in Messages :
            /\ raised' = Append(raised, m)
            /\ outcomes' = Append(outcomes, "raised")
            /\ pc' = AfterRetryRaises
            /\ UNCHANGED << info, disk, clock >>
       \/ /\ info' = NoneInfo
          /\ outcomes' = Append(outcomes, "none")
          /\ raised' = << >>
          /\ pc' = "locate"
          /\ UNCHANGED << disk, clock >>
       \/ \E i \in InfoDicts, w \in WrittenPaths :
            /\ info' = i
            /\ outcomes' = Append(outcomes, "dict")
            /\ raised' = << >>
            /\ disk' = Write(disk, w, clock)
            /\ clock' = clock + 1
            /\ pc' = "locate"
    /\ UNCHANGED << convert_to_mp3, keep_original, speed_ok, mbps, connections,
                    aria2_found, error_msg, downloaded_file, results_files,
                    ffmpeg_found, mp3_path, encoder_spawned, encoder_exit,
                    encoder_input_existed, unlinked, error >>

\* the exception the outer except clause binds: the one that propagated
CaughtMessage(r) == r[Len(r)]

\* the chain with its first two tests exchanged
ClassifyErrorPrivateFirst(msg) ==
    IF "private" \in msg THEN "PrivateVideo"
    ELSE IF "bot" \in msg THEN "BotVerification"
    ELSE IF "unavailable" \in msg THEN "VideoUnavailable"
    ELSE "DownloadFailed"

\* the if/elif chain of lines 142-149
ClassifyError(msg) ==
    IF "bot" \in msg THEN "BotVerification"
    ELSE IF "private" \in msg THEN "PrivateVideo"
    ELSE IF "unavailable" \in msg THEN "VideoUnavailable"
    ELSE "DownloadFailed"

Classify ==
    /\ pc = "classify"
    /\ error_msg' = CaughtMessage(raised)
    /\ error' = ClassifyError(error_msg')
    /\ pc' = "failed"
    /\ UNCHANGED << disk, clock, convert_to_mp3, keep_original, speed_ok, mbps,
                    connections, aria2_found, calls, outcomes, raised, info,
                    downloaded_file, results_files, ffmpeg_found, mp3_path,
                    encoder_spawned, encoder_exit, encoder_input_existed,
                    unlinked >>

----------------------------------------------------------------------------
(* File detection: lines 151-173 *)

\* step (a): the first requested download whose "filepath" exists
RECURSIVE ScanRequested(_, _, _)
ScanRequested(rd, k, d) ==
    IF k > Len(rd) THEN NoPath
    ELSE IF Exists(d, rd[k]) THEN rd[k]
    ELSE ScanRequested(rd, k + 1, d)

FromRequested(i, d) == IF i.hasRD THEN ScanRequested(i.rd, 1, d) ELSE NoPath

\* step (b): the top-level "filepath"
FromTopLevel(i, d) == IF i.hasFP /\ Exists(d, i.fp) THEN i.fp ELSE NoPath

\* step (c): max(files, key=mtime); among equal mtimes the glob order decides
MostRecent(d) ==
    {p \in Paths : d[p] > 0 /\ \A q \in Paths : d[q] <= d[p]}

\* detection that looks at the top-level "filepath" first
LocatedTopLevelFirst(i, d) ==
    IF FromTopLevel(i, d) # NoPath THEN {FromTopLevel(i, d)}
    ELSE IF FromRequested(i, d) # NoPath THEN {FromRequested(i, d)}
    ELSE MostRecent(d)

\* the candidates for downloaded_file; empty when it stays None
Located(i, d) ==
    IF FromRequested(i, d) # NoPath THEN {FromRequested(i, d)}
    ELSE IF FromTopLevel(i, d) # NoPath THEN {FromTopLevel(i, d)}
    ELSE MostRecent(d)

LocateFile ==
    /\ pc = "locate"
    /\ \/ /\ info.kind = "none"
          \* "requested_downloads" in None raises TypeError, caught nowhere
          /\ error' = "TypeError"
          /\ pc' = "crashed"
          /\ UNCHANGED downloaded_file
       \/ /\ info.kind = "dict"
          /\ Located(info, disk) = {}
          /\ error' = "FileNotFound"
          /\ pc' = "failed"
          /\ UNCHANGED downloaded_file
       \/ /\ info.kind = "dict"
          /\ \E f \in Located(info, disk) : downloaded_file' = f
          /\ pc' = "report"
          /\ UNCHANGED error
    /\ UNCHANGED << disk, clock, convert_to_mp3, keep_original, speed_ok, mbps,
                    connections, aria2_found, calls, outcomes, raised,
                    error_msg, info, results_files, ffmpeg_found, mp3_path,
                    encoder_spawned, encoder_exit, encoder_input_existed,
                    unlinked >>

----------------------------------------------------------------------------
(* Result assembly: lines 177-192 *)

OriginalEntry(p) == [name |-> p, type |-> "original", format |-> p.ext]

Mp3Entry(p) == [name |-> p, type |-> "mp3", format |-> "mp3"]

\* an "original" entry added without the existence test, after a first one
WithOriginalTwice(files, d, p) ==
    Append(Append(files, OriginalEntry(p)), OriginalEntry(p))

\* lines 186-192
WithOriginal(files, d, p) ==
    IF Exists(d, p) THEN Append(files, OriginalEntry(p)) ELSE files

\* The title is the last thing read from info.
AddOriginal ==
    /\ pc = "report"
    /\ results_files' = WithOriginal(<< >>, disk, downloaded_file)
    /\ info' = NoInfo
    /\ pc' = "convert"
    /\ UNCHANGED << disk, clock, convert_to_mp3, keep_original, speed_ok, mbps,
                    connections, aria2_found, calls, outcomes, raised,
                    error_msg, downloaded_file, ffmpeg_found, mp3_path,
                    encoder_spawned, encoder_exit, encoder_input_existed,
                    unlinked, error >>

----------------------------------------------------------------------------
(* MP3 conversion: lines 194-242 *)

\* a conversion that goes on without the encoder check
CheckEncoderUnchecked ==
    /\ pc = "convert"
    /\ \/ /\ ~convert_to_mp3
          /\ pc' = "done"
          /\ UNCHANGED ffmpeg_found
       \/ /\ convert_to_mp3
          /\ \E found \in {"yes", "no"} : ffmpeg_found' = found
          /\ pc' = "remove_stale"
    /\ UNCHANGED << disk, clock, convert_to_mp3, keep_original, speed_ok, mbps,
                    connections, aria2_found, calls, outcomes, raised,
                    error_msg, info, downloaded_file, results_files, mp3_path,
                    encoder_spawned, encoder_exit, encoder_input_existed,
                    unlinked, error >>

\* lines 195-197; without convert_to_mp3 the function returns results
CheckEncoder ==
    /\ pc = "convert"
    /\ \/ /\ ~convert_to_mp3
          /\ pc' = "done"
          /\ UNCHANGED << ffmpeg_found, error >>
       \/ /\ convert_to_mp3
          /\ ffmpeg_found' = "no"
          /\ error' = "EncoderMissing"
          /\ pc' = "failed"
       \/ /\ convert_to_mp3
          /\ ffmpeg_found' = "yes"
          /\ pc' = "remove_stale"
          /\ UNCHANGED error
    /\ UNCHANGED << disk, clock, convert_to_mp3, keep_original, speed_ok, mbps,
                    connections, aria2_found, calls, outcomes, raised,
                    error_msg, info, downloaded_file, results_files, mp3_path,
                    encoder_spawned, encoder_exit, encoder_input_existed,
                    unlinked >>

\* lines 199-204
RemoveStale ==
    /\ pc = "remove_stale"
    /\ mp3_path' = Mp3PathOf(downloaded_file)
    /\ IF Exists(disk, mp3_path')
       THEN /\ disk' = [disk EXCEPT ![mp3_path'] = 0]
            /\ unlinked' = unlinked \cup {mp3_path'}
       ELSE UNCHANGED << disk, unlinked >>
    /\ pc' = "encode"
    /\ UNCHANGED << clock, convert_to_mp3, keep_original, speed_ok, mbps,
                    connections, aria2_found, calls, outcomes, raised,
                    error_msg, info, downloaded_file, results_files,
                    ffmpeg_found, encoder_spawned, encoder_exit,
                    encoder_input_existed, error >>

\* lines 206-223: ffmpeg exits 0 only after reading its input and writing its
\* output; a failing run may leave a partial output behind.
RunEncoder ==
    /\ pc = "encode"
    /\ encoder_spawned' = encoder_spawned + 1
    /\ encoder_input_existed' = Exists(disk, downloaded_file)
    /\ \/ /\ Exists(disk, downloaded_file)
          /\ encoder_exit' = "ok"
          /\ disk' = [disk EXCEPT ![mp3_path] = clock]
          /\ clock' = clock + 1
          /\ pc' = "finish"
          /\ UNCHANGED error
       \/ /\ encoder_exit' = "fail"
          /\ error' = "ConversionFailed"
          /\ pc' = "failed"
          /\ \/ UNCHANGED << disk, clock >>
             \/ /\ Exists(disk, downloaded_file)
                /\ disk' = [disk EXCEPT ![mp3_path] = clock]
                /\ clock' = clock + 1
    /\ UNCHANGED << convert_to_mp3, keep_original, speed_ok, mbps, connections,
                    aria2_found, calls, outcomes, raised, error_msg, info,
                    downloaded_file, results_files, ffmpeg_found, mp3_path,
                    unlinked >>

\* a file list left as it is after the original is unlinked
DropOriginalNot(files) == files

\* line 239
DropOriginal(files) == SelectSeq(files, LAMBDA f : f.type # "original")

\* lines 228-234
WithMp3(files, d, p) ==
    IF Exists(d, p) THEN Append(files, Mp3Entry(p)) ELSE files

\* lines 225-242
Finish ==
    /\ pc = "finish"
    /\ IF ~keep_original /\ Exists(disk, downloaded_file)
       THEN /\ disk' = [disk EXCEPT ![downloaded_file] = 0]
            /\ unlinked' = unlinked \cup {downloaded_file}
            /\ results_files' = DropOriginal(WithMp3(results_files, disk, mp3_path))
       ELSE /\ results_files' = WithMp3(results_files, disk, mp3_path)
            /\ UNCHANGED << disk, unlinked >>
    /\ pc' = "done"
    /\ UNCHANGED << clock, convert_to_mp3, keep_original, speed_ok, mbps,
                    connections, aria2_found, calls, outcomes, raised,
                    error_msg, info, downloaded_file, ffmpeg_found, mp3_path,
                    encoder_spawned, encoder_exit, encoder_input_existed,
                    error >>

----------------------------------------------------------------------------
(* Specifications *)

Next ==
    \/ MeasureSpeed
    \/ ChooseConnections
    \/ CheckAria2
    \/ Extract
    \/ Retry
    \/ Classify
    \/ LocateFile
    \/ AddOriginal
    \/ CheckEncoder
    \/ RemoveStale
    \/ RunEncoder
    \/ Finish

Spec == Init /\ [][Next]_vars

\* The speed phase alone, over the whole range of readings, for the default
\* arguments and an empty directory.
InitConn ==
    /\ Init
    /\ disk = [p \in Paths |-> 0]
    /\ ~convert_to_mp3
    /\ keep_original

NextConn ==
    \/ MeasureSpeedWide
    \/ ChooseConnections
    \/ CheckAria2

SpecConn == InitConn /\ [][NextConn]_vars

----------------------------------------------------------------------------
(* Properties *)

CountType(files, t) == Cardinality({k \in 1..Len(files) : files[k].type = t})

\* C1: extract_info is called at most twice; a second call is made only after
\* the first one raised, and then always, with the first call's options except
\* quiet; a retry that raises ends the invocation in the outer except clause.
C1_SingleRetry ==
    /\ Len(calls) <= 2
    /\ Len(calls) = Len(outcomes)
    /\ (Len(calls) = 2) =>
          /\ outcomes[1] = "raised"
          /\ calls[1].quiet
          /\ calls[2] = [calls[1] EXCEPT !.quiet = FALSE]
    /\ (Len(outcomes) >= 1 /\ outcomes[1] = "raised" /\ pc # "retry") =>
          (Len(calls) = 2)
    /\ (Len(outcomes) = 2 /\ outcomes[2] = "raised") =>
          (pc \in {"classify", "failed"})

C1_Witness ==
    /\ pc = "failed"
    /\ outcomes = << "raised", "raised" >>
    /\ Len(calls) = 2

\* C2: when both calls raised, the final error is decided by the retry's
\* message alone: bot verification if it contains that phrase, else private
\* video, else video unavailable, else the generic download failure.
C2_Classification ==
    (pc = "failed" /\ outcomes = << "raised", "raised" >>) =>
        LET m == raised[2] IN
        /\ ("bot" \in m) => (error = "BotVerification")
        /\ ("bot" \notin m /\ "private" \in m) => (error = "PrivateVideo")
        /\ ("bot" \notin m /\ "private" \notin m /\ "unavailable" \in m) =>
              (error = "VideoUnavailable")
        /\ (m = {}) => (error = "DownloadFailed")

C2_Witness ==
    /\ pc = "failed"
    /\ outcomes = << "raised", "raised" >>
    /\ raised[1] = {"unavailable"}
    /\ raised[2] = {"bot", "private"}
    /\ error = "BotVerification"

\* C3: an invocation that ends without a result ends with one of the
\* pipeline's RuntimeErrors, whatever extract_info did; and a failed speed
\* test is never the reason.
C3_DescriptiveErrors ==
    /\ (pc \in {"failed", "crashed"}) => (error \in RuntimeErrors)
    /\ (pc = "done") => (error = "none")
    /\ (speed_ok = "failed" /\ pc \in {"choose", "aria2", "extract"}) =>
          (error = "none")

\* C4: the located file is the first requested download that exists, else
\* the existing top-level filepath, else a most recently modified entry of
\* the directory; the file-not-found error is raised exactly when none of
\* the three gives a file.
C4_LocateOrder ==
    LET hits == {k \in 1..Len(info.rd) : Exists(disk, info.rd[k])}
        first == CHOOSE k \in hits : \A j \in hits : k <= j
        top == info.hasFP /\ Exists(disk, info.fp)
        present == {p \in Paths : disk[p] > 0}
    IN  /\ (pc = "report") =>
              IF info.hasRD /\ hits # {} THEN downloaded_file = info.rd[first]
              ELSE IF top THEN downloaded_file = info.fp
              ELSE /\ downloaded_file \in present
                   /\ \A q \in present : disk[q] <= disk[downloaded_file]
        /\ (pc = "failed" /\ error = "FileNotFound") =>
              (hits = {} /\ ~top /\ present = {})

C4_Witness ==
    /\ pc = "report"
    /\ info.hasRD
    /\ Len(info.rd) = 2
    /\ ~Exists(disk, info.rd[1])
    /\ Exists(disk, info.rd[2])
    /\ info.hasFP
    /\ Exists(disk, info.fp)
    /\ info.fp # info.rd[2]
    /\ downloaded_file = info.rd[2]

\* C5: a result returned for convert_to_mp3 = true and keep_original = false
\* lists exactly one "mp3" entry and no "original" entry.
C5_Mp3Only ==
    (pc = "done" /\ convert_to_mp3 /\ ~keep_original) =>
        /\ CountType(results_files, "mp3") = 1
        /\ CountType(results_files, "original") = 0
        /\ Len(results_files) = 1

C5_Witness ==
    /\ pc = "done"
    /\ convert_to_mp3
    /\ ~keep_original
    /\ unlinked = {mp3_path, downloaded_file}
    /\ downloaded_file # mp3_path

\* C6: a result returned for convert_to_mp3 = false lists exactly one entry,
\* of type "original"; every returned result lists at most one "original"
\* and at most one "mp3" entry.
C6_FileEntries ==
    /\ (pc = "done" /\ ~convert_to_mp3) =>
          /\ Len(results_files) = 1
          /\ results_files[1].type = "original"
    /\ (pc = "done") =>
          /\ CountType(results_files, "original") <= 1
          /\ CountType(results_files, "mp3") <= 1

C6_Witness ==
    /\ pc = "done"
    /\ ~convert_to_mp3
    /\ results_files = << OriginalEntry(downloaded_file) >>

\* C7: once a stale MP3 has been removed from the target path, the
\* conversion fails only if the encoder fails on an input that exists, and a
\* returned result leaves an MP3 at the target path.
C7_StaleOverwritten ==
    (mp3_path # NoPath /\ mp3_path \in unlinked) =>
        /\ (encoder_exit = "fail") => encoder_input_existed
        /\ (pc = "done") => Exists(disk, mp3_path)

\* C8: with the encoder missing, the invocation ends with the encoder error
\* and has neither started an encoder nor unlinked any file; the encoder is
\* looked for only once a file has been located.
C8_EncoderMissing ==
    /\ (ffmpeg_found = "no") =>
          /\ convert_to_mp3
          /\ pc = "failed"
          /\ error = "EncoderMissing"
          /\ encoder_spawned = 0
          /\ unlinked = {}
    /\ (error = "EncoderMissing") => (ffmpeg_found = "no")
    /\ (ffmpeg_found # "unchecked") =>
          /\ Len(calls) >= 1
          /\ downloaded_file # NoPath
    /\ (encoder_spawned > 0) => (ffmpeg_found = "yes")

C8_Witness ==
    /\ pc = "failed"
    /\ error = "EncoderMissing"
    /\ downloaded_file.ext = "webm"
    /\ Exists(disk, Mp3PathOf(downloaded_file))

\* C9: the connection count is 16 from 100 Mbps, 8 from 50, 4 from 10, 1
\* from 0 and 1 below 0; it is one of 1, 4, 8, 16, also when the speed test
\* failed.  (mbps is in tenths of Mbps.)
C9_Connections ==
    (pc \in {"aria2", "extract"}) =>
        /\ (mbps >= 1000) => (connections = 16)
        /\ (mbps >= 500 /\ mbps < 1000) => (connections = 8)
        /\ (mbps >= 100 /\ mbps < 500) => (connections = 4)
        /\ (mbps >= 0 /\ mbps < 100) => (connections = 1)
        /\ (mbps < 0) => (connections = 1)
        /\ connections \in {1, 4, 8, 16}
        /\ connections >= 1
        /\ (speed_ok = "failed") => (connections = 4)

C9_Witness ==
    /\ pc = "extract"
    /\ mbps < 0
    /\ connections = 1

\* C10: the located file is missing from the directory only after the
\* encoder has exited successfully on it with keep_original = false.
C10_SourceKept ==
    (downloaded_file # NoPath /\ ~Exists(disk, downloaded_file)) =>
        (encoder_exit = "ok" /\ ~keep_original)

====
